---- MODULE Spec2Model ----
(***************************************************************************)
(* The visibility state machine of the Modal component of                  *)
(* bearei-team/react-modal.  The source tree holds four variants of the    *)
(* component; the model carries the variant as a variable fixed at mount   *)
(* and translates each variant's handlers from its own code:               *)
(*                                                                         *)
(*   "ModalOptions"     src/src/components/Modal.tsx:155-269               *)
(*   "ModalVisible"     src/src/components/Modal.tsx:439-544               *)
(*   "CheckModalClose"  src/unnamed/part_000:155-263                       *)
(*   "OnPrefix"         src/unnamed/part_000:420-532                       *)
(*                                                                         *)
(* JavaScript values are strings: "true", "false", "undefined", and the    *)
(* objects "{visible:true}" / "{visible:false}" that the ModalVisible      *)
(* variant stores in its boolean state.                                    *)
(***************************************************************************)
EXTENDS Naturals, Sequences, FiniteSets, TLC

VARIABLES
    variant,       \* which of the four component bodies is mounted
    props,         \* the props of the latest render
    status,        \* useState('idle')
    modalOptions,  \* useState({visible: false}) / useState(false)
    closure,       \* the state values captured by the latest render
    pendingEffect, \* the useEffect of the latest render has not run yet
    needRender,    \* a state update is queued, the re-render has not run yet
    last,          \* the step that ran last (history)
    calls          \* the callbacks invoked by that step, in order (history)

vars == <<variant, props, status, modalOptions, closure, pendingEffect,
          needRender, last, calls>>

----------------------------------------------------------------------------
(* JavaScript values *)

Undefined == "undefined"

OptBool == {"true", "false", Undefined}

Variants == {"ModalOptions", "ModalVisible", "CheckModalClose", "OnPrefix"}

EventType == {"onClick", "onPress", "onTouchEnd"}

Observers == {"onVisible", "onClose"}

Slots == {"header", "main", "footer", "container"}

NoEvent == [type |-> Undefined, target |-> Undefined]

\* typeof v === 'boolean'
IsBoolean(v) == v \in {"true", "false"}

\* JavaScript truthiness: objects are truthy, false and undefined are not
Truthy(v) == v \in {"true", "{visible:true}", "{visible:false}"}

\* the ! operator
Not(v) == IF Truthy(v) THEN "false" ELSE "true"

\* the ?? operator
Nullish(a, b) == IF a = Undefined THEN b ELSE a

\* the object literal {visible: v} stored where a boolean is expected
Boxed(v) == IF v = "true" THEN "{visible:true}" ELSE "{visible:false}"

Call(fn, visible, event) == [fn |-> fn, visible |-> visible, event |-> event]

----------------------------------------------------------------------------
(* Observer fan-out *)

\* mutant: the !options.visible test is dropped, onClose always follows
handleModalOptionsChangeAlwaysClose(options) ==
    <<Call("onVisible", options.visible, options.event),
      Call("onClose", options.visible, options.event)>>

\* onVisible?.(options); !options.visible && onClose?.(options)
handleModalOptionsChangeOptions(options) ==
    <<Call("onVisible", options.visible, options.event)>>
    \o (IF ~Truthy(options.visible)
        THEN <<Call("onClose", options.visible, options.event)>>
        ELSE <<>>)

\* visible ? onVisible?.() : onClose?.()   (no argument is passed)
handleModalOptionsChangeVisible(visible) ==
    IF Truthy(visible)
    THEN <<Call("onVisible", Undefined, NoEvent)>>
    ELSE <<Call("onClose", Undefined, NoEvent)>>

----------------------------------------------------------------------------
(* Guard *)

\* mutant: the guard forgets loading
isResponseIgnoresLoading(p) ==
    IF IsBoolean(p.disabledModalClose)
    THEN ~Truthy(p.disabledModalClose)
    ELSE TRUE

\* typeof disabledModalClose === 'boolean'
\*   ? !disabledModalClose && !loading : !loading
isResponseTypeof(p) ==
    IF IsBoolean(p.disabledModalClose)
    THEN ~Truthy(p.disabledModalClose) /\ ~Truthy(p.loading)
    ELSE ~Truthy(p.loading)

\* checkModalClose ? !disabledModalClose && !loading : !loading
isResponseCheck(p, checkModalClose) ==
    IF checkModalClose
    THEN ~Truthy(p.disabledModalClose) /\ ~Truthy(p.loading)
    ELSE ~Truthy(p.loading)

\* mutant: the container is bound with handleCallback() like the other slots
checkModalCloseNever(slot) == FALSE

\* handleCallback(true) is bound to the container, handleCallback() elsewhere
checkModalCloseOf(slot) == slot = "container"

isResponse(v, p, slot) ==
    IF v = "CheckModalClose"
    THEN isResponseCheck(p, checkModalCloseOf(slot))
    ELSE isResponseTypeof(p)

----------------------------------------------------------------------------
(* Slot assembly *)

\* the keys of props the handlers are derived from
eventNames(v, p) ==
    IF v \in {"ModalOptions", "ModalVisible"}
    THEN p.on                     \* keys included in bindEvenNames
    ELSE p.on \cup Observers      \* keys starting with 'on'

\* bindEvents(names, handleCallback): the keys spread into a slot's props
slotKeys(v, p, slot) ==
    CASE v = "CheckModalClose" ->
           IF slot = "main" THEN {} ELSE eventNames(v, p)
      [] OTHER ->
           IF slot = "container" THEN {} ELSE eventNames(v, p)

\* the slots whose render call spreads the bound events
receivesEvents(v, slot) ==
    IF v = "CheckModalClose" THEN slot # "main" ELSE slot # "container"

\* mutant: every bound key holds a wrapped handler
slotHandlersAnyKey(v, p, slot) == slotKeys(v, p, slot)

\* handleCallback(key) is a function only for the three interaction kinds
slotHandlers(v, p, slot) == slotKeys(v, p, slot) \cap EventType

\* childrenProps: the shared fields every slot receives
childrenProps(p) ==
    [visible |-> p.visible, loading |-> p.loading,
     defaultVisible |-> p.defaultVisible]

\* the slot a slot's element is nested in (main receives header and footer,
\* the container receives the content as children)
parentSlot(v, slot) ==
    CASE slot = "container" -> Undefined
      [] slot = "main" -> "container"
      [] OTHER -> IF v = "CheckModalClose" THEN "container" ELSE "main"

RECURSIVE ancestors(_, _)
ancestors(v, slot) ==
    IF parentSlot(v, slot) = Undefined
    THEN {}
    ELSE {parentSlot(v, slot)} \cup ancestors(v, parentSlot(v, slot))

----------------------------------------------------------------------------
(* Initial state: the component has rendered once, its effect is pending *)

Props ==
    [visible : OptBool, defaultVisible : OptBool, loading : OptBool,
     disabledModalClose : OptBool, on : SUBSET EventType]

\* the inputs the effect reconciles
Inputs(p) == [visible |-> p.visible, defaultVisible |-> p.defaultVisible]

\* the record of a step: what ran, the state value before it, the values its
\* closure had captured, and the visibility inputs of the render before the
\* one it belongs to (for an effect: the inputs of the previous effect run)
Step(op, slot, event, before, captured, st, inputs) ==
    [op |-> op, slot |-> slot, event |-> event, before |-> before,
     captured |-> captured, status |-> st, inputs |-> inputs]

Init ==
    /\ variant \in Variants
    /\ props \in Props
    /\ status = "idle"
    /\ modalOptions = [visible |-> "false", event |-> NoEvent]
    /\ closure = [visible |-> "false", status |-> "idle"]
    /\ pendingEffect = TRUE
    /\ needRender = FALSE
    /\ last = Step("mount", Undefined, NoEvent, "false", "false", "idle",
                   Inputs(props))
    /\ calls = <<>>

----------------------------------------------------------------------------
(* useEffect: reconcile the state with the visible / defaultVisible props *)

\* mutant: a settled effect run falls back to defaultVisible
nextVisibleFallsBack(st, p) ==
    IF st # "idle"
    THEN Nullish(p.visible, p.defaultVisible)
    ELSE Nullish(p.defaultVisible, p.visible)

\* mutant: defaultVisible is consulted by every effect run
nextVisibleAlwaysDefault(st, p) == Nullish(p.defaultVisible, p.visible)

\* status !== 'idle' ? visible : defaultVisible ?? visible
nextVisibleOf(st, p) ==
    IF st # "idle" THEN p.visible ELSE Nullish(p.defaultVisible, p.visible)

\* mutant: isUpdate without the status === 'succeeded' test
isUpdateIgnoresStatus(v, current, next, st) == current # next

\* the updater's isUpdate, on the latest state and the effect's status
isUpdate(v, current, next, st) ==
    IF v = "ModalVisible"
    THEN current # next
    ELSE current # next /\ st = "succeeded"

\* the value the updater returns
resolvedOptions(v, current, next, st) ==
    IF v = "ModalVisible"
    THEN [visible |-> IF isUpdate(v, current, next, st)
                      THEN Boxed(next) ELSE next,
          event |-> NoEvent]
    ELSE [visible |-> next, event |-> NoEvent]

\* the observer calls the updater makes
resolveCalls(v, current, next, st) ==
    IF v # "ModalVisible" /\ isUpdate(v, current, next, st)
    THEN handleModalOptionsChangeOptions([visible |-> next, event |-> NoEvent])
    ELSE <<>>

\* mutant: the effect never calls setStatus
settledStatusKeepsIdle(st, current) == current

\* status === 'idle' && setStatus('succeeded')
settledStatus(st, current) == IF st = "idle" THEN "succeeded" ELSE current

Resolve ==
    /\ pendingEffect
    /\ LET next == nextVisibleOf(closure.status, props)
            cur == modalOptions.visible
       IN /\ modalOptions' =
               IF IsBoolean(next)
               THEN resolvedOptions(variant, cur, next, closure.status)
               ELSE modalOptions
          /\ calls' =
               IF IsBoolean(next)
               THEN resolveCalls(variant, cur, next, closure.status)
               ELSE <<>>
          /\ status' = settledStatus(closure.status, status)
          /\ needRender' =
               \/ needRender
               \/ status' # status
               \/ /\ IsBoolean(next)
                  /\ variant = "ModalVisible" => modalOptions' # modalOptions
          /\ last' = Step("resolve", Undefined, NoEvent, cur, closure.visible,
                          closure.status, last.inputs)
    /\ pendingEffect' = FALSE
    /\ UNCHANGED <<variant, props, closure>>

----------------------------------------------------------------------------
(* Render: a queued state update re-renders the component with the same props *)

\* mutant: the effect has no dependency list and runs after every render
RenderRunsEffect ==
    /\ needRender
    /\ ~pendingEffect
    /\ closure' = [visible |-> modalOptions.visible, status |-> status]
    /\ pendingEffect' = TRUE
    /\ needRender' = FALSE
    /\ last' = Step("render", Undefined, NoEvent, modalOptions.visible,
                    modalOptions.visible, status, Inputs(props))
    /\ calls' = <<>>
    /\ UNCHANGED <<variant, props, status, modalOptions>>

Render ==
    /\ needRender
    /\ ~pendingEffect
    /\ closure' = [visible |-> modalOptions.visible, status |-> status]
    /\ pendingEffect' = (closure.status # status)
    /\ needRender' = FALSE
    /\ last' = Step("render", Undefined, NoEvent, modalOptions.visible,
                    modalOptions.visible, status, Inputs(props))
    /\ calls' = <<>>
    /\ UNCHANGED <<variant, props, status, modalOptions>>

----------------------------------------------------------------------------
(* Update: the parent renders the component with new props.  The effect is  *)
(* scheduled when one of its dependencies changed; handleModalOptionsChange *)
(* is a dependency in three variants and changes with onVisible / onClose.  *)

effectDeps(v) ==
    IF v = "ModalVisible"
    THEN {"defaultVisible", "status", "visible"}
    ELSE {"defaultVisible", "handleModalOptionsChange", "status", "visible"}

changedDeps(p, q, observersChanged) ==
    (IF p.defaultVisible # q.defaultVisible THEN {"defaultVisible"} ELSE {})
    \cup (IF p.visible # q.visible THEN {"visible"} ELSE {})
    \cup (IF closure.status # status THEN {"status"} ELSE {})
    \cup (IF observersChanged THEN {"handleModalOptionsChange"} ELSE {})

\* the props of the next render: the parent changes the visibility inputs,
\* one guard input, or registers / unregisters one interaction handler
NewProps(p) ==
    {[p EXCEPT !.visible = x, !.defaultVisible = y] :
        x \in OptBool, y \in OptBool}
    \cup {[p EXCEPT !.loading = x] : x \in OptBool}
    \cup {[p EXCEPT !.disabledModalClose = x] : x \in OptBool}
    \cup {[p EXCEPT !.on = (p.on \ {k}) \cup ({k} \ p.on)] : k \in EventType}

\* mutant: rendering with new props commits the visible prop at once
UpdateCommitsVisible ==
    /\ ~pendingEffect
    /\ \E q \in NewProps(props) :
          /\ props' = q
          /\ modalOptions' =
               IF IsBoolean(q.visible)
               THEN [visible |-> q.visible, event |-> NoEvent]
               ELSE modalOptions
    /\ closure' = [visible |-> modalOptions'.visible, status |-> status]
    /\ pendingEffect' = FALSE
    /\ needRender' = FALSE
    /\ last' = Step("update", Undefined, NoEvent, modalOptions.visible,
                    modalOptions.visible, status, Inputs(props))
    /\ calls' = <<>>
    /\ UNCHANGED <<variant, status>>

Update ==
    /\ ~pendingEffect
    /\ \E q \in NewProps(props), observersChanged \in BOOLEAN :
          /\ props' = q
          /\ pendingEffect' =
               (changedDeps(props, q, observersChanged)
                  \cap effectDeps(variant) # {})
    /\ closure' = [visible |-> modalOptions.visible, status |-> status]
    /\ needRender' = FALSE
    /\ last' = Step("update", Undefined, NoEvent, modalOptions.visible,
                    modalOptions.visible, status, Inputs(props))
    /\ calls' = <<>>
    /\ UNCHANGED <<variant, status, modalOptions>>

----------------------------------------------------------------------------
(* Interaction: a wrapped handler of a slot receives an event *)

\* callback?.(e): the caller's handler for the event's kind
callbackCalls(p, e) ==
    IF e.type \in p.on THEN <<Call(e.type, Undefined, e)>> ELSE <<>>

\* the value handleResponse passes to the state setter
respondedOptions(v, captured, e) ==
    IF v = "ModalVisible"
    THEN [visible |-> captured, event |-> NoEvent]
    ELSE [visible |-> Not(captured), event |-> e]

\* mutant: handleResponse without callback?.(e)
respondedCallsNoCallback(v, p, captured, e) ==
    IF v = "ModalVisible"
    THEN handleModalOptionsChangeVisible(captured)
    ELSE handleModalOptionsChangeOptions(respondedOptions(v, captured, e))

\* mutant: callback?.(e) runs before handleModalOptionsChange
respondedCallsCallbackFirst(v, p, captured, e) ==
    callbackCalls(p, e)
    \o (IF v = "ModalVisible"
        THEN handleModalOptionsChangeVisible(captured)
        ELSE handleModalOptionsChangeOptions(respondedOptions(v, captured, e)))

\* the calls of a permitted handleResponse, in order
respondedCalls(v, p, captured, e) ==
    (IF v = "ModalVisible"
     THEN handleModalOptionsChangeVisible(captured)
     ELSE handleModalOptionsChangeOptions(respondedOptions(v, captured, e)))
    \o callbackCalls(p, e)

handleResponse(slot, e) ==
    /\ IF isResponse(variant, props, slot)
       THEN /\ modalOptions' = respondedOptions(variant, closure.visible, e)
            /\ calls' = respondedCalls(variant, props, closure.visible, e)
            /\ needRender' =
                 \/ needRender
                 \/ variant # "ModalVisible"
                 \/ modalOptions' # modalOptions
       ELSE /\ calls' = <<>>
            /\ UNCHANGED <<modalOptions, needRender>>
    /\ last' = Step("interaction", slot, e, modalOptions.visible,
                    closure.visible, closure.status, Inputs(props))
    /\ UNCHANGED <<variant, props, status, closure, pendingEffect>>

\* the host delivers an event to a slot that holds a handler for its kind
Interact ==
    /\ ~pendingEffect
    /\ ~needRender
    /\ \E slot \in Slots, kind \in EventType :
          /\ kind \in slotHandlers(variant, props, slot)
          /\ handleResponse(slot, [type |-> kind, target |-> slot])

\* the same event bubbles to the handler of an enclosing slot before the
\* component re-renders
Bubble ==
    /\ ~pendingEffect
    /\ last.op = "interaction"
    /\ \E slot \in ancestors(variant, last.slot) :
          /\ last.event.type \in slotHandlers(variant, props, slot)
          /\ handleResponse(slot, last.event)

Next == Resolve \/ Render \/ Update \/ Interact \/ Bubble

Spec == Init /\ [][Next]_vars

\* React runs every effect it has scheduled
FairSpec == Spec /\ WF_vars(Resolve)

\* an instance whose parent never renders it again and that receives no
\* event; React runs its scheduled effects and queued renders
QuietSpec ==
    Init /\ [][Resolve \/ Render]_vars /\ WF_vars(Resolve) /\ WF_vars(Render)

----------------------------------------------------------------------------
(* Vocabulary of the properties *)

\* the value the component holds as "is the modal open"
currentVisible == modalOptions.visible

\* the boolean a stored value carries, read through {visible: b}
Unboxed(v) ==
    CASE v = "{visible:true}" -> "true"
      [] v = "{visible:false}" -> "false"
      [] OTHER -> v

Interacted == last.op = "interaction"

Resolved == last.op = "resolve"

CallsOf(fn) == {i \in 1..Len(calls) : calls[i].fn = fn}

ObserverCalls == {i \in 1..Len(calls) : calls[i].fn \in Observers}

\* the calls of the caller's own handler with the event of the last step
ForwardedCalls ==
    {i \in 1..Len(calls) :
        calls[i].fn = last.event.type /\ calls[i].event = last.event}

----------------------------------------------------------------------------
(* C1..C10 *)

\* C1: an interaction that arrives while loading = true, on any slot, for any
\* event kind and any disabledModalClose, leaves currentVisible unchanged and
\* invokes neither onVisible nor onClose.
C1_LoadingGuard ==
    (Interacted /\ props.loading = "true")
        => (currentVisible = last.before /\ ObserverCalls = {})

C1_Witness ==
    /\ Interacted
    /\ props.loading = "true"
    /\ props.disabledModalClose = "false"
    /\ last.slot = "container"
    /\ last.before = "true"

C3_DisabledCloseGuard ==
    (/\ Interacted
     /\ last.slot \in {"container", "main"}
     /\ ~Truthy(props.loading)
     /\ props.disabledModalClose = "true")
        => (currentVisible = last.before /\ ObserverCalls = {})

C3_Witness ==
    /\ Interacted
    /\ last.slot = "container"
    /\ props.loading = "false"
    /\ props.disabledModalClose = "true"
    /\ last.before = "true"
    /\ currentVisible = "true"

\* C4 (as stated): with loading not set and disabledModalClose = true, an
\* interaction on a header or footer slot is permitted: it negates
\* currentVisible and invokes onVisible with the new value.
C4_OtherSlotsUngated ==
    (/\ Interacted
     /\ last.slot \in {"header", "footer"}
     /\ ~Truthy(props.loading)
     /\ props.disabledModalClose = "true")
        => /\ currentVisible = Not(last.before)
           /\ \E i \in CallsOf("onVisible") : calls[i].visible = currentVisible

\* C5 (as stated): after the first settle the visible field of the bundle
\* every slot receives equals the reconciled value the render captured.
C5_SlotsSeeCurrentVisible ==
    closure.status = "succeeded"
        => \A slot \in Slots :
               childrenProps(props).visible = Unboxed(closure.visible)

\* C6 (as stated): a permitted toggle commits the negation of the value held
\* before it and reports that negation to onVisible, and the second of two
\* consecutive permitted toggles returns to the value held before the first.
C6_ToggleSymmetry ==
    [][(last'.op = "interaction" /\ isResponse(variant', props', last'.slot))
          => /\ currentVisible' = Not(currentVisible)
             /\ \E i \in 1..Len(calls') :
                   /\ calls'[i].fn = "onVisible"
                   /\ calls'[i].visible = Not(currentVisible)
             /\ (Interacted /\ isResponse(variant, props, last.slot))
                   => currentVisible' = last.before]_vars

\* C7: the first resolution, the one run with status 'idle', invokes neither
\* onVisible nor onClose, for every combination of the inputs and also when
\* it changes currentVisible.
C7_FirstSettleSilence ==
    (Resolved /\ last.status = "idle") => calls = <<>>

C7_Witness ==
    /\ Resolved
    /\ last.status = "idle"
    /\ last.before = "false"
    /\ currentVisible = "true"
    /\ props.loading = "true"

\* C8 (as stated): the first resolution adopts visible when it is present and
\* defaultVisible only when visible is absent.
C8_FirstResolutionPrecedence ==
    (Resolved /\ last.status = "idle")
        => LET adopted == Nullish(props.visible, props.defaultVisible)
           IN  Unboxed(currentVisible)
                   = (IF IsBoolean(adopted) THEN adopted ELSE last.before)

C10_OnVisibleOnEveryChange ==
    (/\ last.op \in {"resolve", "interaction"}
     /\ last.status = "succeeded"
     /\ currentVisible # last.before)
        => /\ Cardinality(CallsOf("onVisible")) = 1
           /\ \A i \in CallsOf("onVisible") : calls[i].visible = currentVisible

----------------------------------------------------------------------------
(* C11..C20 *)

\* the effect run of the last step saw the inputs of the effect run before it
SameInputs == last.inputs = Inputs(props)

\* C11 (as stated): once Settled, a resolve run with visible and
\* defaultVisible unchanged since the previous resolve invokes neither
\* onVisible nor onClose.
C11_IdempotentSettle ==
    (Resolved /\ last.status = "succeeded" /\ SameInputs)
        => ObserverCalls = {}

\* C12: within one permitted toggle every observer call precedes the call
\* of the caller's own handler, and the handler never runs without an
\* observer call before it.
C12_ObserverBeforeCallback ==
    Interacted =>
        /\ \A i \in ObserverCalls, j \in ForwardedCalls : i < j
        /\ \A j \in ForwardedCalls : \E i \in ObserverCalls : i < j

C12_Witness ==
    /\ Interacted
    /\ Len(calls) = 3
    /\ calls[1].fn = "onVisible"
    /\ calls[2].fn = "onClose"
    /\ calls[3].fn = "onPress"

\* C13 (as stated): Settled with currentVisible = false, the controlled
\* input went from false to true since the previous resolve: the resolve
\* invokes onVisible once with visible = true and no event, does not invoke
\* onClose, and commits true.
C13_ExternalChangeNotified ==
    (/\ Resolved
     /\ last.status = "succeeded"
     /\ last.inputs.visible = "false"
     /\ props.visible = "true"
     /\ last.before = "false")
        => /\ calls = <<Call("onVisible", "true", NoEvent)>>
           /\ currentVisible = "true"

\* the settled effect run of the last step followed a change of
\* defaultVisible alone
DefaultChanged ==
    /\ Resolved
    /\ last.status = "succeeded"
    /\ last.inputs.visible = props.visible
    /\ last.inputs.defaultVisible # props.defaultVisible

ScenarioA ==
    /\ props.defaultVisible = "true"
    /\ props.visible = Undefined
    /\ props.loading = "false"
    /\ props.disabledModalClose = Undefined

\* a click delivered to the container slot itself while the modal is open
ContainerClick ==
    /\ Interacted
    /\ last.slot = "container"
    /\ last.event = [type |-> "onClick", target |-> "container"]
    /\ last.before = "true"
    /\ last.captured = "true"

\* C15 (as stated): in Scenario A the mount resolve settles currentVisible
\* to true with no observer call, and a click on the container slot then
\* sets currentVisible to false and invokes onVisible with visible = false
\* and onClose.
C15_ScenarioA ==
    ScenarioA =>
        /\ (Resolved /\ last.status = "idle")
              => currentVisible = "true" /\ ObserverCalls = {}
        /\ ContainerClick
              => /\ currentVisible = "false"
                 /\ \E i \in CallsOf("onVisible") : calls[i].visible = "false"
                 /\ CallsOf("onClose") # {}

\* C16 (as stated): after a resolve run in Settled with visible present,
\* currentVisible equals visible, whatever earlier toggles committed.
C16_ControlledAuthoritative ==
    (Resolved /\ last.status = "succeeded" /\ props.visible # Undefined)
        => currentVisible = props.visible

C18_AbsentInputNoOp ==
    (Resolved /\ last.status = "succeeded" /\ props.visible = Undefined)
        => currentVisible = last.before /\ calls = <<>>

C18_Witness ==
    /\ Resolved
    /\ last.status = "succeeded"
    /\ props.visible = Undefined
    /\ props.defaultVisible = "false"
    /\ currentVisible = "true"

\* C19: every instance eventually has status 'succeeded' and keeps it for
\* the rest of its life, also when visible and defaultVisible are absent.
C19_LifecycleProgress == <>[](status = "succeeded")

C19_Witness ==
    /\ Resolved
    /\ last.status = "idle"
    /\ status = "succeeded"
    /\ props.visible = Undefined
    /\ props.defaultVisible = Undefined

----------------------------------------------------------------------------
(* C21..C26 *)

\* C21 (as stated): every onClose call directly follows, in the same step,
\* an onVisible call with the same payload (visible = false, the same event
\* or none), and every onVisible call with visible = false is directly
\* followed by an onClose call.
C21_OnCloseFilteredView ==
    /\ \A i \in CallsOf("onClose") :
          /\ i > 1
          /\ calls[i - 1] = [calls[i] EXCEPT !.fn = "onVisible"]
          /\ calls[i].visible = "false"
    /\ \A i \in CallsOf("onVisible") :
          calls[i].visible = "false"
              => (i < Len(calls) /\ calls[i + 1].fn = "onClose")

\* C22 (as stated): of two permitted toggles with no render between them,
\* the second reports to onVisible the negation of what the first reported.
C22_NoStaleReads ==
    [][(/\ Interacted
        /\ isResponse(variant, props, last.slot)
        /\ last'.op = "interaction"
        /\ isResponse(variant', props', last'.slot))
          => \A i \in CallsOf("onVisible") :
                \A j \in 1..Len(calls') :
                    (calls'[j].fn = "onVisible" /\ IsBoolean(calls[i].visible))
                        => calls'[j].visible = Not(calls[i].visible)]_vars

\* C23 (as stated): while status is 'idle', and after the first resolve with
\* visible and defaultVisible absent, currentVisible is the boolean false;
\* a permitted toggle of an instance in that state commits true, invokes
\* onVisible with visible = true and does not invoke onClose.
C23_ClosedByDefault ==
    /\ status = "idle" => currentVisible = "false"
    /\ (/\ Resolved
        /\ last.status = "idle"
        /\ props.visible = Undefined
        /\ props.defaultVisible = Undefined)
          => currentVisible = "false"
    /\ (/\ Interacted
        /\ last.event.target = last.slot
        /\ isResponse(variant, props, last.slot)
        /\ props.visible = Undefined
        /\ props.defaultVisible = Undefined
        /\ last.before = "false")
          => /\ currentVisible = "true"
             /\ \E i \in CallsOf("onVisible") : calls[i].visible = "true"
             /\ CallsOf("onClose") = {}

\* the effect run that follows the re-render of the mount
MountRerun == pendingEffect /\ last.op = "render" /\ last'.op = "resolve"

\* C24 (as stated): the resolve run with status 'idle' notifies nobody; the
\* run caused by status becoming 'succeeded' ends with currentVisible =
\* visible and makes one onVisible call carrying visible (and one onClose
\* call when visible is false) when visible and defaultVisible are different
\* booleans, and makes no call otherwise.
C24_MountWithBothInputs ==
    [][/\ (pendingEffect /\ closure.status = "idle") => calls' = <<>>
       /\ MountRerun =>
            IF /\ IsBoolean(props.visible)
               /\ IsBoolean(props.defaultVisible)
               /\ props.visible # props.defaultVisible
            THEN /\ currentVisible' = props.visible
                 /\ calls' =
                      <<Call("onVisible", props.visible, NoEvent)>>
                      \o (IF props.visible = "false"
                          THEN <<Call("onClose", "false", NoEvent)>>
                          ELSE <<>>)
            ELSE calls' = <<>>]_vars

\* C25 (as stated): a permitted toggle with visible present commits the
\* negation of currentVisible and invokes onVisible with it; the next
\* resolve, with visible unchanged and the toggled value (stored with its
\* event) different from visible, restores currentVisible to visible and
\* invokes onVisible once with visible.
C25_ToggleInControlledMode ==
    [][/\ (/\ last'.op = "interaction"
           /\ last'.event.target = last'.slot
           /\ isResponse(variant, props, last'.slot)
           /\ IsBoolean(props.visible))
             => /\ currentVisible' = Not(currentVisible)
                /\ \E i \in 1..Len(calls') :
                      /\ calls'[i].fn = "onVisible"
                      /\ calls'[i].visible = currentVisible'
       /\ (/\ pendingEffect
           /\ last'.op = "resolve"
           /\ modalOptions.event # NoEvent
           /\ IsBoolean(props.visible)
           /\ last.inputs.visible = props.visible
           /\ currentVisible # props.visible)
             => /\ currentVisible' = props.visible
                /\ \E i \in 1..Len(calls') :
                      /\ calls'[i] = Call("onVisible", props.visible, NoEvent)
                      /\ \A k \in 1..Len(calls') :
                            calls'[k].fn = "onVisible" => k = i]_vars

\* C26: with fixed inputs and no interaction the reconciliation comes to
\* rest (no effect scheduled, no render queued) and stays there; after the
\* resolve run with status 'idle' every scheduled run has status
\* 'succeeded', and after a run with status 'succeeded' no run is scheduled
\* again, so at most two resolve runs occur.
C26_Quiescence ==
    /\ <>[](~pendingEffect /\ ~needRender)
    /\ [](Resolved => [](pendingEffect => closure.status = "succeeded"))
    /\ []((Resolved /\ last.status = "succeeded") => [](~pendingEffect))

C26_Witness ==
    /\ last.op = "render"
    /\ status = "succeeded"
    /\ closure.status = "succeeded"
    /\ ~pendingEffect
    /\ ~needRender
    /\ props.visible = "true"
    /\ props.defaultVisible = "false"
    /\ currentVisible \in {"true", "{visible:true}"}

====
